---------------------------- MODULE Spec2Model ----------------------------
(***************************************************************************)
(* Model of the live-chat room/session broker: the TypeScript server       *)
(* (src/src/server/index.js, lines 264-617) and its in-memory DataStore    *)
(* (lines 619-830).                                                        *)
(*                                                                         *)
(* Node runs every HTTP route and every socket handler to completion on    *)
(* one thread, and none of them awaits, so each handler is one atomic      *)
(* action; concurrency is the interleaving of whole handlers.              *)
(*                                                                         *)
(* Abstractions:                                                           *)
(*  - ids built from Date.now() and Math.random() are modelled as fresh    *)
(*    ids (the next unused natural number);                                *)
(*  - every `new Date()` reads a clock that never runs backwards; two      *)
(*    reads may return the same millisecond;                               *)
(*  - socket.io is modelled by its documented behaviour: socket.join adds  *)
(*    the socket to a room, io.to(r).emit reaches every socket in r,       *)
(*    socket.to(r).emit every socket in r but the emitting one, a socket   *)
(*    has left all its rooms when its 'disconnect' handler runs, and       *)
(*    events to one socket arrive in the order they were emitted.          *)
(***************************************************************************)
EXTENDS Integers, Sequences, FiniteSets, TLC

\* ---------------------------------------------------------------- bounds
\* tickets created and messages stored in a run of Spec
MaxTickets == 2
MaxMessages == 1
\* messages stored in a run of SpecOrder and of SpecCompany
OrderMaxMessages == 3
CompanyMaxMessages == 1
\* the clock readings of SpecClock end one or two milliseconds after MaxTime
MaxTime == 2
ClockMaxMessages == 1
ClientMaxMessages == 2

\* the values Math.random() may give the suffix of an id, and the length
\* a log reaches, where ids are drawn
MaxSuffix == 2
IdsMaxMessages == 2

\* ---------------------------------------------------------------- inputs
\* socket.id of the transport sessions
SocketIds == {"s1", "s2", "s3"}

\* company ids a client may send: the two seeded ones
CompanyIdInputs == {"company-1", "company-2"}

\* ticket ids a client may send; id k is unknown until the k-th ticket is
\* created
TicketIdInputs == 1..MaxTickets

UserTypes == {"customer", "agent"}

UserNames == {"Ana"}

\* status values a PUT body may carry (the route does not validate it)
StatusInputs == {"open", "closed", "archived"}

\* payloads of message:send: sender, senderType, content, mediaType, mediaUrl
TextInput ==
  [ sender |-> "Ana", senderType |-> "customer", content |-> "Ola",
    mediaType |-> "undefined", mediaUrl |-> "undefined" ]

MediaInput ==
  [ sender |-> "Bob", senderType |-> "agent", content |-> "",
    mediaType |-> "image", mediaUrl |-> "/uploads/1.png" ]

SendInputs == { TextInput, MediaInput }

\* ----------------------------------------------------------------- state
VARIABLES
  companyTickets,  \* DataStore.companyTickets: company id -> set of ticket ids
  tickets,         \* DataStore.tickets: ticket id -> Ticket
  messages,        \* DataStore.messages: message id -> Message
  ticketMessages,  \* DataStore.ticketMessages: ticket id -> Message[]
  connections,     \* DataStore.connections: socket id -> Connection
  sockets,         \* socket.io: the connected sockets
  rooms,           \* socket.io: socket id -> the rooms it has joined
  now,             \* the wall clock, in milliseconds
  lastOp,          \* the handler that ran last, with its arguments
  emitted,         \* socket id -> the events that handler sent to it, in order
  response,        \* the HTTP response that handler produced (or none)
  received,        \* socket id -> ids of the messages of its message:received
                   \* events since it connected, in order of delivery
  client           \* the React agent dashboard: socketRef, selectedTicket, and
                   \* where it is between render, effect cleanup and effect

vars == << companyTickets, tickets, messages, ticketMessages, connections,
           sockets, rooms, now, lastOp, emitted, response, received, client >>

store == << companyTickets, tickets, messages, ticketMessages, connections >>

\* ------------------------------------------------------------- DataStore
\* _initializeSampleData
companies ==
  { [id |-> "company-1", name |-> "Empresa 1", apiKey |-> "api-key-company-1"],
    [id |-> "company-2", name |-> "Empresa 2", apiKey |-> "api-key-company-2"] }

CompanyIds == { c.id : c \in companies }

\* getCompany(companyId) is not undefined
hasCompany(companyId) == companyId \in CompanyIds

\* getTicket(ticketId) is not undefined
hasTicket(ticketId) == ticketId \in DOMAIN tickets

getTicket(ticketId) == tickets[ticketId]

\* getConnection(socketId) is not undefined
hasConnection(socketId) == socketId \in DOMAIN connections

getConnection(socketId) == connections[socketId]

\* ticketMessages.get(ticketId) || []
getMessagesByTicket(ticketId) ==
  IF ticketId \in DOMAIN ticketMessages THEN ticketMessages[ticketId] ELSE << >>

\* Map.set
MapSet(map, key, value) ==
  [ k \in DOMAIN map \cup {key} |-> IF k = key THEN value ELSE map[k] ]

\* Map.delete
MapDelete(map, key) == [ k \in DOMAIN map \ {key} |-> map[k] ]

\* the id createTicket generates: one not used before
nextTicketId == Cardinality(DOMAIN tickets) + 1

\* mutation of nextMessageId: an id without its random part, which repeats
CollidingMessageId == Cardinality(DOMAIN messages \ DOMAIN messages) + 1

\* the id createMessage generates: one not used before
nextMessageId == Cardinality(DOMAIN messages) + 1

\* the Ticket object createTicket builds
NewTicket(ticketId, companyId, customerId, customerName, t1, t2) ==
  [ id |-> ticketId, companyId |-> companyId, customerId |-> customerId,
    customerName |-> customerName, status |-> "open",
    createdAt |-> t1, updatedAt |-> t2 ]

\* companyTickets.get(companyId), then add(ticketId) if it is there
IndexTicket(index, companyId, ticketId) ==
  IF companyId \in DOMAIN index
  THEN [ index EXCEPT ![companyId] = @ \cup {ticketId} ]
  ELSE index

\* createTicket: the three maps after the call
createTicket(ticket) ==
  /\ tickets' = MapSet(tickets, ticket.id, ticket)
  /\ ticketMessages' = MapSet(ticketMessages, ticket.id, << >>)
  /\ companyTickets' = IndexTicket(companyTickets, ticket.companyId, ticket.id)

\* Array.from(ticketIds): a Set iterates in insertion order, and ids are
\* handed out in increasing order
RECURSIVE ArrayFrom(_)
ArrayFrom(ids) ==
  IF ids = {} THEN << >>
  ELSE LET m == CHOOSE i \in ids : \A j \in ids : i <= j
       IN << m >> \o ArrayFrom(ids \ {m})

\* mutation of CompareTickets: the operands are exchanged
CompareTicketsAscending(a, b) == a.updatedAt - b.updatedAt

\* the comparator of getTicketsByCompany: negative when a goes before b
CompareTickets(a, b) == b.updatedAt - a.updatedAt

\* Array.prototype.sort (stable): insert x after the elements that do not
\* come after it
RECURSIVE InsertSorted(_, _)
InsertSorted(sorted, x) ==
  IF sorted = << >> THEN << x >>
  ELSE IF CompareTickets(Head(sorted), x) <= 0
       THEN << Head(sorted) >> \o InsertSorted(Tail(sorted), x)
       ELSE << x >> \o sorted

RECURSIVE SortTickets(_)
SortTickets(seq) ==
  IF seq = << >> THEN << >>
  ELSE InsertSorted(SortTickets(SubSeq(seq, 1, Len(seq) - 1)), seq[Len(seq)])

getTicketsByCompany(companyId) ==
  IF companyId \notin DOMAIN companyTickets THEN << >>
  ELSE LET ids == ArrayFrom(companyTickets[companyId])
           found == SelectSeq(ids, LAMBDA id : id \in DOMAIN tickets)
       IN SortTickets([ i \in 1..Len(found) |-> tickets[found[i]] ])

\* mutation of updateTicketStatus: nothing is written when the status is
\* the one the ticket has
updateTicketStatusIfChanged(ticketId, status, t) ==
  IF tickets[ticketId].status = status
  THEN tickets
  ELSE [ tickets EXCEPT ![ticketId].status = status,
                        ![ticketId].updatedAt = t ]

\* mutation of updateTicketStatus: the status is not assigned
updateTicketTimestamp(ticketId, status, t) ==
  [ tickets EXCEPT ![ticketId].updatedAt = t ]

\* updateTicketStatus on an existing ticket
updateTicketStatus(ticketId, status, t) ==
  [ tickets EXCEPT ![ticketId].status = status, ![ticketId].updatedAt = t ]

\* mediaType || null
OrNull(v) == IF v \in {"undefined", "", "null"} THEN "null" ELSE v

\* mutation of NewMessage: the timestamp is read after the ticket is updated
NewMessageLate(messageId, ticketId, in, t) ==
  [ id |-> messageId, ticketId |-> ticketId, sender |-> in.sender,
    senderType |-> in.senderType, content |-> in.content,
    mediaType |-> OrNull(in.mediaType), mediaUrl |-> OrNull(in.mediaUrl),
    timestamp |-> t + 1 ]

\* the Message object createMessage builds
NewMessage(messageId, ticketId, in, t) ==
  [ id |-> messageId, ticketId |-> ticketId, sender |-> in.sender,
    senderType |-> in.senderType, content |-> in.content,
    mediaType |-> OrNull(in.mediaType), mediaUrl |-> OrNull(in.mediaUrl),
    timestamp |-> t ]

\* mutation of PushMessage: unshift instead of push
UnshiftMessage(log, message) == << message >> \o log

\* mutation of PushMessage: the message is not added to the log
DropMessage(log, message) == log

\* ticketMessages.push(message)
PushMessage(log, message) == Append(log, message)

\* mutation of createMessage: the timestamp of the ticket is not updated
createMessageNoTouch(message, t) ==
  /\ messages' = MapSet(messages, message.id, message)
  /\ ticketMessages' =
       IF message.ticketId \in DOMAIN ticketMessages
       THEN [ ticketMessages EXCEPT
                ![message.ticketId] = PushMessage(@, message) ]
       ELSE ticketMessages
  /\ tickets' = tickets

\* createMessage: the three maps after the call; t is the second clock reading
createMessage(message, t) ==
  /\ messages' = MapSet(messages, message.id, message)
  /\ ticketMessages' =
       IF message.ticketId \in DOMAIN ticketMessages
       THEN [ ticketMessages EXCEPT
                ![message.ticketId] = PushMessage(@, message) ]
       ELSE ticketMessages
  /\ tickets' =
       IF message.ticketId \in DOMAIN tickets
       THEN [ tickets EXCEPT ![message.ticketId].updatedAt = t ]
       ELSE tickets

\* mutation of addConnection: an entry that is there is kept
addConnectionIfAbsent(socketId, companyId, ticketId, userType) ==
  IF socketId \in DOMAIN connections
  THEN connections
  ELSE MapSet(connections, socketId,
              [ companyId |-> companyId, ticketId |-> ticketId,
                userType |-> userType ])

\* addConnection
addConnection(socketId, companyId, ticketId, userType) ==
  MapSet(connections, socketId,
         [ companyId |-> companyId, ticketId |-> ticketId,
           userType |-> userType ])

\* mutation of removeConnection: the entry is left in the registry
keepConnection(socketId) == connections

\* removeConnection
removeConnection(socketId) == MapDelete(connections, socketId)

\* getConnectionsByTicket, as the set of socket ids
getConnectionsByTicket(ticketId) ==
  { s \in DOMAIN connections : connections[s].ticketId = ticketId }

\* getConnectionsByCompany, as the set of socket ids
getConnectionsByCompany(companyId) ==
  { s \in DOMAIN connections : connections[s].companyId = companyId }

\* -------------------------------------------------------------- socket.io
\* `ticket-${ticketId}` and `company-${companyId}`
TicketRoom(ticketId) == << "ticket", ticketId >>

CompanyRoom(companyId) == << "company", companyId >>

\* the sockets of a room, rm being the rooms of every socket
InRoom(rm, room) == { s \in SocketIds : room \in rm[s] }

\* io.to(room): every socket of the room
IoTo(rm, room) == InRoom(rm, room)

\* socket.to(room): every socket of the room but the emitting one
SocketTo(rm, socket, room) == InRoom(rm, room) \ {socket}

\* mutation of SocketEmit: io.emit in place of socket.emit
IoEmit(socket) == SocketIds

\* socket.emit: the emitting socket alone
SocketEmit(socket) == {socket}

\* socket.join(room)
SocketJoin(rm, socket, room) == [ rm EXCEPT ![socket] = @ \cup {room} ]

EmitNothing == [ s \in SocketIds |-> << >> ]

\* emit(event) to the recipients, after what was already emitted
Deliver(em, recipients, event) ==
  [ s \in SocketIds |->
      IF s \in recipients THEN Append(em[s], event) ELSE em[s] ]

\* the events, with the room (or socket) they were addressed to
ErrorEvent(socket, text) ==
  [ type |-> "error", to |-> << "socket", socket >>, errorMessage |-> text ]

HistoryEvent(socket, msgs) ==
  [ type |-> "ticket:history", to |-> << "socket", socket >>,
    messages |-> msgs ]

UserJoinedEvent(ticketId, userType, userName, t) ==
  [ type |-> "user:joined", to |-> TicketRoom(ticketId),
    userType |-> userType, userName |-> userName, timestamp |-> t ]

\* mutation of MessageReceivedEvent: the message is rebuilt from the
\* request and lacks the id it was stored under
MessageReceivedEventRaw(ticketId, message) ==
  [ type |-> "message:received", to |-> TicketRoom(ticketId),
    message |-> [ message EXCEPT !.id = 0 ] ]

MessageReceivedEvent(ticketId, message) ==
  [ type |-> "message:received", to |-> TicketRoom(ticketId),
    message |-> message ]

TicketUpdatedEvent(companyId, ticketId, message) ==
  [ type |-> "ticket:updated", to |-> CompanyRoom(companyId),
    ticketId |-> ticketId, lastMessage |-> message ]

TypingEvent(ticketId, userName, isTyping) ==
  [ type |-> "typing:update", to |-> TicketRoom(ticketId),
    userName |-> userName, isTyping |-> isTyping ]

UserLeftEvent(ticketId, userType, t) ==
  [ type |-> "user:left", to |-> TicketRoom(ticketId),
    userType |-> userType, timestamp |-> t ]

StatusUpdatedEvent(ticketId, status) ==
  [ type |-> "ticket:status-updated", to |-> TicketRoom(ticketId),
    ticketId |-> ticketId, status |-> status ]

NoResponse == [ status |-> 0 ]

Init ==
  /\ companyTickets = [ c \in CompanyIds |-> {} ]
  /\ tickets = << >>
  /\ messages = << >>
  /\ ticketMessages = << >>
  /\ connections = << >>
  /\ sockets = {}
  /\ rooms = [ s \in SocketIds |-> {} ]
  /\ now = 0
  /\ lastOp = [ op |-> "init" ]
  /\ emitted = EmitNothing
  /\ response = NoResponse
  /\ received = [ s \in SocketIds |-> << >> ]
  /\ client = [ socketRef |-> "null", selectedTicket |-> 0,
                pc |-> "unmounted" ]

\* a reading of the clock, d milliseconds after the previous one
Clock(t, d) == t + d

\* --------------------------------------------------------------- HTTP API
\* mutation of PostTicketCheck: the company is not looked up
PostTicketCheckNoCompany(companyId, customerId, customerName) ==
  IF companyId = "" \/ customerId = "" \/ customerName = ""
  THEN [ status |-> 400, error |-> "Missing required fields" ]
  ELSE [ status |-> 200 ]

\* POST /api/tickets: the validation of the body
PostTicketCheck(companyId, customerId, customerName) ==
  IF companyId = "" \/ customerId = "" \/ customerName = ""
  THEN [ status |-> 400, error |-> "Missing required fields" ]
  ELSE IF ~ hasCompany(companyId)
  THEN [ status |-> 404, error |-> "Company not found" ]
  ELSE [ status |-> 200 ]

\* POST /api/tickets
PostTicket(companyId, customerId, customerName, d1, d2) ==
  /\ lastOp' = [ op |-> "POST /api/tickets", companyId |-> companyId ]
  /\ emitted' = EmitNothing
  /\ UNCHANGED << messages, connections, sockets, rooms, received >>
  /\ LET check == PostTicketCheck(companyId, customerId, customerName)
     IN IF check.status # 200
        THEN /\ response' = check
             /\ UNCHANGED << companyTickets, tickets, ticketMessages, now >>
        ELSE LET t1 == Clock(now, d1)
                 t2 == Clock(t1, d2)
                 ticket == NewTicket(nextTicketId, companyId, customerId,
                                     customerName, t1, t2)
             IN /\ createTicket(ticket)
                /\ now' = t2
                /\ response' = [ status |-> 200, ticket |-> ticket ]

\* GET /api/tickets/:companyId
GetTickets(companyId) ==
  /\ lastOp' = [ op |-> "GET /api/tickets/:companyId", companyId |-> companyId ]
  /\ emitted' = EmitNothing
  /\ response' = [ status |-> 200, tickets |-> getTicketsByCompany(companyId) ]
  /\ UNCHANGED << store, sockets, rooms, now, received >>

\* mutation of GetTicketCheck: the company is not compared
GetTicketCheckNoTenant(companyId, ticketId) ==
  IF ~ hasTicket(ticketId)
  THEN [ status |-> 404, error |-> "Ticket not found" ]
  ELSE [ status |-> 200 ]

\* GET /api/tickets/:companyId/:ticketId: the 404 and 403 answers
GetTicketCheck(companyId, ticketId) ==
  IF ~ hasTicket(ticketId)
  THEN [ status |-> 404, error |-> "Ticket not found" ]
  ELSE IF getTicket(ticketId).companyId # companyId
  THEN [ status |-> 403, error |-> "Access denied" ]
  ELSE [ status |-> 200 ]

\* GET /api/tickets/:companyId/:ticketId
GetTicket(companyId, ticketId) ==
  /\ lastOp' = [ op |-> "GET /api/tickets/:companyId/:ticketId",
                 companyId |-> companyId, ticketId |-> ticketId ]
  /\ emitted' = EmitNothing
  /\ LET check == GetTicketCheck(companyId, ticketId)
     IN response' =
          IF check.status # 200 THEN check
          ELSE [ status |-> 200, ticket |-> getTicket(ticketId),
                 messages |-> getMessagesByTicket(ticketId) ]
  /\ UNCHANGED << store, sockets, rooms, now, received >>

\* mutation of PutStatusCheck: the company is not compared
PutStatusCheckNoTenant(companyId, ticketId) ==
  IF ~ hasTicket(ticketId)
  THEN [ status |-> 404, error |-> "Ticket not found" ]
  ELSE [ status |-> 200 ]

\* PUT /api/tickets/:companyId/:ticketId/status: the 404 and 403 answers
PutStatusCheck(companyId, ticketId) ==
  IF ~ hasTicket(ticketId)
  THEN [ status |-> 404, error |-> "Ticket not found" ]
  ELSE IF getTicket(ticketId).companyId # companyId
  THEN [ status |-> 403, error |-> "Access denied" ]
  ELSE [ status |-> 200 ]

\* PUT /api/tickets/:companyId/:ticketId/status
PutStatus(companyId, ticketId, status, d) ==
  /\ lastOp' = [ op |-> "PUT /api/tickets/:companyId/:ticketId/status",
                 companyId |-> companyId, ticketId |-> ticketId,
                 status |-> status,
                 was |-> IF hasTicket(ticketId)
                         THEN getTicket(ticketId).status ELSE "none" ]
  /\ UNCHANGED << companyTickets, messages, ticketMessages, connections,
                  sockets, rooms, received >>
  /\ LET check == PutStatusCheck(companyId, ticketId)
     IN IF check.status # 200
        THEN /\ response' = check
             /\ emitted' = EmitNothing
             /\ UNCHANGED << tickets, now >>
        ELSE LET t == Clock(now, d)
             IN /\ tickets' = updateTicketStatus(ticketId, status, t)
                /\ now' = t
                /\ emitted' =
                     Deliver(EmitNothing, IoTo(rooms, TicketRoom(ticketId)),
                             StatusUpdatedEvent(ticketId, status))
                /\ response' = [ status |-> 200, ticket |-> tickets'[ticketId] ]

\* ------------------------------------------------------- socket handlers
\* io.on('connection'): a client opens a transport session
Connect(s) ==
  /\ s \notin sockets
  /\ sockets' = sockets \cup {s}
  /\ lastOp' = [ op |-> "connection", socket |-> s ]
  /\ emitted' = EmitNothing
  /\ response' = NoResponse
  /\ UNCHANGED << store, rooms, now, received >>

\* mutation of JoinCheck: a ticket that is not there is not refused
JoinCheckNoTicket(companyId, ticketId) ==
  IF hasTicket(ticketId) /\ getTicket(ticketId).companyId # companyId
  THEN "Access denied"
  ELSE "ok"

\* mutation of JoinCheck: the company is not compared
JoinCheckNoTenant(companyId, ticketId) ==
  IF ~ hasTicket(ticketId) THEN "Ticket not found" ELSE "ok"

\* join-ticket: the two checks before the socket joins
JoinCheck(companyId, ticketId) ==
  IF ~ hasTicket(ticketId) THEN "Ticket not found"
  ELSE IF getTicket(ticketId).companyId # companyId THEN "Access denied"
  ELSE "ok"

\* mutation of UserJoinedTo: io.to in place of socket.to
UserJoinedToAll(rm, socket, ticketId) == IoTo(rm, TicketRoom(ticketId))

\* join-ticket: the sockets told user:joined
UserJoinedTo(rm, socket, ticketId) == SocketTo(rm, socket, TicketRoom(ticketId))

\* socket.on('join-ticket')
JoinTicket(s, companyId, ticketId, userType, userName, d) ==
  /\ s \in sockets
  /\ lastOp' = [ op |-> "join-ticket", socket |-> s, companyId |-> companyId,
                 ticketId |-> ticketId, userType |-> userType,
                 userName |-> userName ]
  /\ response' = NoResponse
  /\ UNCHANGED << companyTickets, tickets, messages, ticketMessages,
                  sockets, received >>
  /\ LET check == JoinCheck(companyId, ticketId)
     IN IF check # "ok"
        THEN /\ emitted' = Deliver(EmitNothing, SocketEmit(s),
                                   ErrorEvent(s, check))
             /\ UNCHANGED << connections, rooms, now >>
        ELSE LET t == Clock(now, d)
                 history == HistoryEvent(s, getMessagesByTicket(ticketId))
                 joined == UserJoinedEvent(ticketId, userType, userName, t)
             IN /\ rooms' = SocketJoin(SocketJoin(rooms, s, TicketRoom(ticketId)),
                                       s, CompanyRoom(companyId))
                /\ connections' =
                     addConnection(s, companyId, ticketId, userType)
                /\ now' = t
                /\ emitted' =
                     Deliver(Deliver(EmitNothing, SocketEmit(s), history),
                             UserJoinedTo(rooms', s, ticketId), joined)

\* mutation of SendCheck: a socket with no registry entry passes
SendCheckNoRegistry(socketId, ticketId) ==
  IF hasConnection(socketId) /\ getConnection(socketId).ticketId # ticketId
  THEN "Access denied"
  ELSE "ok"

\* mutation of SendCheck: the ticket of the registry entry is not compared
SendCheckAnyTicket(socketId, ticketId) ==
  IF ~ hasConnection(socketId) THEN "Not connected to a ticket" ELSE "ok"

\* message:send: the two checks before the message is stored
SendCheck(socketId, ticketId) ==
  IF ~ hasConnection(socketId) THEN "Not connected to a ticket"
  ELSE IF getConnection(socketId).ticketId # ticketId THEN "Access denied"
  ELSE "ok"

\* mutation of MessageReceivedTo: the room of the company in place of the
\* room of the ticket
MessageReceivedToCompany(rm, socket, ticketId) ==
  IF hasTicket(ticketId)
  THEN IoTo(rm, CompanyRoom(getTicket(ticketId).companyId))
  ELSE IoTo(rm, TicketRoom(ticketId))

\* mutation of MessageReceivedTo: socket.to in place of io.to
MessageReceivedToOthers(rm, socket, ticketId) ==
  SocketTo(rm, socket, TicketRoom(ticketId))

\* message:send: the sockets sent message:received
MessageReceivedTo(rm, socket, ticketId) == IoTo(rm, TicketRoom(ticketId))

\* mutation of TicketUpdatedTo: io.to in place of socket.to
TicketUpdatedToAll(rm, socket, companyId) == IoTo(rm, CompanyRoom(companyId))

\* message:send: the sockets sent ticket:updated
TicketUpdatedTo(rm, socket, companyId) ==
  SocketTo(rm, socket, CompanyRoom(companyId))

\* socket.on('message:send')
MessageSend(s, ticketId, in, d1, d2) ==
  /\ s \in sockets
  /\ lastOp' = [ op |-> "message:send", socket |-> s, ticketId |-> ticketId,
                 in |-> in ]
  /\ response' = NoResponse
  /\ UNCHANGED << companyTickets, connections, sockets, rooms >>
  /\ LET check == SendCheck(s, ticketId)
     IN IF check # "ok"
        THEN /\ emitted' = Deliver(EmitNothing, SocketEmit(s),
                                   ErrorEvent(s, check))
             /\ UNCHANGED << tickets, messages, ticketMessages, now,
                             received >>
        ELSE LET t1 == Clock(now, d1)
                 t2 == Clock(t1, d2)
                 message == NewMessage(nextMessageId, ticketId, in, t1)
                 toRoom == MessageReceivedTo(rooms, s, ticketId)
                 first == Deliver(EmitNothing, toRoom,
                                  MessageReceivedEvent(ticketId, message))
             IN /\ createMessage(message, t2)
                /\ now' = t2
                /\ received' = [ r \in SocketIds |->
                      IF r \in toRoom THEN Append(received[r], message.id)
                                      ELSE received[r] ]
                /\ emitted' =
                     IF hasTicket(ticketId)
                     THEN LET companyId == getTicket(ticketId).companyId
                          IN Deliver(first,
                                     TicketUpdatedTo(rooms, s, companyId),
                                     TicketUpdatedEvent(companyId, ticketId,
                                                        message))
                     ELSE first

\* the JavaScript createMessage: a parameter that is not passed takes its
\* default, null
JsDefault(v) == IF v = "undefined" THEN "null" ELSE v

\* mutation of JsNewMessage: the message has no media fields
JsNewMessageNoMedia(messageId, ticketId, in, t) ==
  [ id |-> messageId, ticketId |-> ticketId, sender |-> in.sender,
    senderType |-> in.senderType, content |-> in.content, timestamp |-> t ]

\* the Message object the JavaScript store builds for the JavaScript
\* handler, which passes ticketId, sender, senderType and content only
JsNewMessage(messageId, ticketId, in, t) ==
  [ id |-> messageId, ticketId |-> ticketId, sender |-> in.sender,
    senderType |-> in.senderType, content |-> in.content,
    mediaType |-> JsDefault("undefined"), mediaUrl |-> JsDefault("undefined"),
    timestamp |-> t ]

\* socket.on('message:send') of the JavaScript server; its checks, its
\* store and its emits read as those of the TypeScript server
JsMessageSend(s, ticketId, in, d1, d2) ==
  /\ s \in sockets
  /\ lastOp' = [ op |-> "message:send", socket |-> s, ticketId |-> ticketId,
                 in |-> in ]
  /\ response' = NoResponse
  /\ UNCHANGED << companyTickets, connections, sockets, rooms >>
  /\ LET check == SendCheck(s, ticketId)
     IN IF check # "ok"
        THEN /\ emitted' = Deliver(EmitNothing, SocketEmit(s),
                                   ErrorEvent(s, check))
             /\ UNCHANGED << tickets, messages, ticketMessages, now,
                             received >>
        ELSE LET t1 == Clock(now, d1)
                 t2 == Clock(t1, d2)
                 message == JsNewMessage(nextMessageId, ticketId, in, t1)
                 toRoom == MessageReceivedTo(rooms, s, ticketId)
                 first == Deliver(EmitNothing, toRoom,
                                  MessageReceivedEvent(ticketId, message))
             IN /\ createMessage(message, t2)
                /\ now' = t2
                /\ received' = [ r \in SocketIds |->
                      IF r \in toRoom THEN Append(received[r], message.id)
                                      ELSE received[r] ]
                /\ emitted' =
                     IF hasTicket(ticketId)
                     THEN LET companyId == getTicket(ticketId).companyId
                          IN Deliver(first,
                                     TicketUpdatedTo(rooms, s, companyId),
                                     TicketUpdatedEvent(companyId, ticketId,
                                                        message))
                     ELSE first

\* mutation of TypingTo: io.to in place of socket.to
TypingToAll(rm, socket, ticketId) == IoTo(rm, TicketRoom(ticketId))

\* typing:start, typing:stop: the sockets sent typing:update
TypingTo(rm, socket, ticketId) == SocketTo(rm, socket, TicketRoom(ticketId))

\* socket.on('typing:start') and socket.on('typing:stop')
Typing(s, ticketId, userName, isTyping) ==
  /\ s \in sockets
  /\ lastOp' = [ op |-> IF isTyping THEN "typing:start" ELSE "typing:stop",
                 socket |-> s, ticketId |-> ticketId, userName |-> userName ]
  /\ response' = NoResponse
  /\ emitted' =
       Deliver(EmitNothing, TypingTo(rooms, s, ticketId),
               TypingEvent(ticketId, userName, isTyping))
  /\ UNCHANGED << store, sockets, rooms, now, received >>

TypingStart(s, ticketId, userName) == Typing(s, ticketId, userName, TRUE)

TypingStop(s, ticketId, userName) == Typing(s, ticketId, userName, FALSE)

\* the transport session ends: socket.io takes the socket out of its rooms,
\* then runs socket.on('disconnect')
Disconnect(s, d) ==
  /\ s \in sockets
  /\ sockets' = sockets \ {s}
  /\ rooms' = [ rooms EXCEPT ![s] = {} ]
  /\ received' = [ received EXCEPT ![s] = << >> ]
  /\ lastOp' = [ op |-> "disconnect", socket |-> s ]
  /\ response' = NoResponse
  /\ UNCHANGED << companyTickets, tickets, messages, ticketMessages >>
  /\ IF hasConnection(s)
     THEN LET t == Clock(now, d)
              connection == getConnection(s)
          IN /\ now' = t
             /\ emitted' =
                  Deliver(EmitNothing,
                          SocketTo(rooms', s, TicketRoom(connection.ticketId)),
                          UserLeftEvent(connection.ticketId,
                                        connection.userType, t))
             /\ connections' = removeConnection(s)
     ELSE /\ emitted' = EmitNothing
          /\ UNCHANGED << connections, now >>

\* dataStore.createMessage called on the exported store, not through a
\* socket handler: what it returns is the answer
StoreCreateMessage(ticketId, in, d1, d2) ==
  LET t1 == Clock(now, d1)
      t2 == Clock(t1, d2)
      message == NewMessage(nextMessageId, ticketId, in, t1)
  IN /\ lastOp' = [ op |-> "dataStore.createMessage", ticketId |-> ticketId,
                    in |-> in ]
     /\ createMessage(message, t2)
     /\ now' = t2
     /\ response' = [ status |-> 200, message |-> message ]
     /\ emitted' = EmitNothing
     /\ UNCHANGED << companyTickets, connections, sockets, rooms, received >>

\* every handler, with its inputs drawn from the given sets; tickets are
\* created while their id is in Tids, messages sent while fewer than
\* maxMessages are stored
NextOf(Socks, Comps, Tids, Types, Stats, Ins, Ds, maxMessages) ==
  \/ \E companyId \in Comps \cup {"", "company-9"},
        customerId \in {"", "cust-1"}, customerName \in {"Ana"},
        d1 \in Ds, d2 \in Ds :
       /\ nextTicketId \in Tids
       /\ PostTicket(companyId, customerId, customerName, d1, d2)
       /\ UNCHANGED client
  \/ \E companyId \in Comps :
       /\ GetTickets(companyId)
       /\ UNCHANGED client
  \/ \E companyId \in Comps, ticketId \in Tids :
       /\ GetTicket(companyId, ticketId)
       /\ UNCHANGED client
  \/ \E companyId \in Comps, ticketId \in Tids, status \in Stats, d \in Ds :
       /\ PutStatus(companyId, ticketId, status, d)
       /\ UNCHANGED client
  \/ \E s \in Socks :
       /\ Connect(s)
       /\ UNCHANGED client
  \/ \E s \in Socks, companyId \in Comps, ticketId \in Tids,
        userType \in Types, userName \in UserNames, d \in Ds :
       /\ JoinTicket(s, companyId, ticketId, userType, userName, d)
       /\ UNCHANGED client
  \/ \E s \in Socks, ticketId \in Tids, in \in Ins, d1 \in Ds, d2 \in Ds :
       /\ nextMessageId <= maxMessages
       /\ MessageSend(s, ticketId, in, d1, d2)
       /\ UNCHANGED client
  \/ \E s \in Socks, ticketId \in Tids, userName \in UserNames :
       /\ TypingStart(s, ticketId, userName)
       /\ UNCHANGED client
  \/ \E s \in Socks, ticketId \in Tids, userName \in UserNames :
       /\ TypingStop(s, ticketId, userName)
       /\ UNCHANGED client
  \/ \E s \in Socks, d \in Ds :
       /\ Disconnect(s, d)
       /\ UNCHANGED client

\* two tenants, two sockets, all handlers within one millisecond
Next ==
  NextOf({"s1", "s2"}, CompanyIdInputs, TicketIdInputs, UserTypes, {"open"},
         {TextInput}, {0}, MaxMessages)

Spec == Init /\ [][Next]_vars

\* one tenant, one ticket, two sockets: the order of messages
NextOrder ==
  NextOf({"s1", "s2"}, {"company-1"}, {1}, UserTypes, {"open", "closed"},
         SendInputs, {0}, OrderMaxMessages)

SpecOrder == Init /\ [][NextOrder]_vars

\* one tenant, two tickets, three sockets: ticket room and company room
NextCompany ==
  NextOf(SocketIds, {"company-1"}, {1, 2}, {"agent"}, {"open"},
         {TextInput}, {0}, CompanyMaxMessages)

SpecCompany == Init /\ [][NextCompany]_vars

\* two tenants, two tickets, two sockets, both statuses
NextStatus ==
  NextOf({"s1", "s2"}, CompanyIdInputs, {1, 2}, {"agent"},
         {"open", "closed"}, {TextInput}, {0}, MaxMessages)

SpecStatus == Init /\ [][NextStatus]_vars

\* the milliseconds between two readings of the clock
Delays == IF now < MaxTime THEN {0, 1} ELSE {0}

\* one tenant, two tickets, both statuses, a running clock; one socket,
\* which joins and writes to the first ticket
NextClock ==
  \/ \E companyId \in {"company-1", "", "company-9"},
        customerId \in {"", "cust-1"}, d1 \in Delays, d2 \in Delays :
       /\ nextTicketId \in {1, 2}
       /\ PostTicket(companyId, customerId, "Ana", d1, d2)
       /\ UNCHANGED client
  \/ /\ GetTickets("company-1")
     /\ UNCHANGED client
  \/ \E ticketId \in {1, 2} :
       /\ GetTicket("company-1", ticketId)
       /\ UNCHANGED client
  \/ \E ticketId \in {1, 2}, status \in {"open", "closed"}, d \in Delays :
       /\ PutStatus("company-1", ticketId, status, d)
       /\ UNCHANGED client
  \/ /\ Connect("s1")
     /\ UNCHANGED client
  \/ \E ticketId \in {1}, d \in Delays :
       /\ JoinTicket("s1", "company-1", ticketId, "agent", "Ana", d)
       /\ UNCHANGED client
  \/ \E ticketId \in {1}, d1 \in Delays, d2 \in Delays :
       /\ nextMessageId <= ClockMaxMessages
       /\ MessageSend("s1", ticketId, TextInput, d1, d2)
       /\ UNCHANGED client
  \/ \E ticketId \in {1, 2} :
       /\ TypingStart("s1", ticketId, "Ana")
       /\ UNCHANGED client
  \/ \E ticketId \in {1, 2} :
       /\ TypingStop("s1", ticketId, "Ana")
       /\ UNCHANGED client
  \/ \E d \in Delays :
       /\ Disconnect("s1", d)
       /\ UNCHANGED client

SpecClock == Init /\ [][NextClock]_vars

\* one tenant, one ticket, one socket, any status a request body can carry
NextAnyStatus ==
  NextOf({"s1"}, {"company-1"}, {1}, UserTypes, StatusInputs, {TextInput},
         {0}, MaxMessages)

SpecAnyStatus == Init /\ [][NextAnyStatus]_vars

\* the server with one tenant, one ticket and one socket, and callers of
\* the exported store that name the ticket or a ticket that is not there
NextStore ==
  \/ NextOf({"s1"}, {"company-1"}, {1}, UserTypes, {"open", "closed"},
            {TextInput}, {0}, MaxMessages)
  \/ \E ticketId \in {1, 2} :
       /\ nextMessageId <= MaxMessages
       /\ StoreCreateMessage(ticketId, TextInput, 0, 0)
       /\ UNCHANGED client

SpecStore == Init /\ [][NextStore]_vars

\* `${Date.now()}-${Math.random().toString(36).substr(2, 9)}`: the id of a
\* ticket or a message, which is the reading of the clock followed by a draw
\* r; two ids are equal exactly when both parts are
GeneratedId(t, r) == t * MaxSuffix + r

\* dataStore.createTicket with the id as the code generates it; the clock is
\* read for the id, for createdAt and for updatedAt
StoreCreateTicket(companyId, customerId, customerName, r, d0, d1, d2) ==
  LET t0 == Clock(now, d0)
      t1 == Clock(t0, d1)
      t2 == Clock(t1, d2)
      ticket == NewTicket(GeneratedId(t0, r), companyId, customerId,
                          customerName, t1, t2)
  IN /\ lastOp' = [ op |-> "dataStore.createTicket", companyId |-> companyId ]
     /\ createTicket(ticket)
     /\ now' = t2
     /\ response' = [ status |-> 200, ticket |-> ticket ]
     /\ emitted' = EmitNothing
     /\ UNCHANGED << messages, connections, sockets, rooms, received >>

\* dataStore.createMessage with the id as the code generates it; the clock
\* is read for the id, for the timestamp and for updatedAt
StoreCreateMessageDrawn(ticketId, in, r, d0, d1, d2) ==
  LET t0 == Clock(now, d0)
      t1 == Clock(t0, d1)
      t2 == Clock(t1, d2)
      message == NewMessage(GeneratedId(t0, r), ticketId, in, t1)
  IN /\ lastOp' = [ op |-> "dataStore.createMessage", ticketId |-> ticketId,
                    in |-> in ]
     /\ createMessage(message, t2)
     /\ now' = t2
     /\ response' = [ status |-> 200, message |-> message ]
     /\ emitted' = EmitNothing
     /\ UNCHANGED << companyTickets, connections, sockets, rooms, received >>

\* the store alone, its ids drawn as the code draws them: tickets of the two
\* tenants and messages to the tickets there are, under a running clock; a
\* ticket is created while fewer than MaxTickets are stored, a message while
\* fewer than IdsMaxMessages are stored and the log is shorter than that
NextIds ==
  \/ \E companyId \in CompanyIdInputs, r \in 1..MaxSuffix, d0 \in Delays :
       /\ Cardinality(DOMAIN tickets) < MaxTickets
       /\ StoreCreateTicket(companyId, "cust-1", "Ana", r, d0, 0, 0)
       /\ UNCHANGED client
  \/ \E ticketId \in DOMAIN tickets, r \in 1..MaxSuffix, d0 \in Delays :
       /\ Cardinality(DOMAIN messages) < IdsMaxMessages
       /\ Len(ticketMessages[ticketId]) < IdsMaxMessages
       /\ StoreCreateMessageDrawn(ticketId, TextInput, r, d0, 0, 0)
       /\ UNCHANGED client

SpecIds == Init /\ [][NextIds]_vars

\* a socket emits 'join-company': io.on('connection') registers no listener
\* for that event, so the server runs no handler and nothing changes
JoinCompany(s, companyId) ==
  /\ s \in sockets
  /\ lastOp' = [ op |-> "join-company", socket |-> s, companyId |-> companyId ]
  /\ emitted' = EmitNothing
  /\ response' = NoResponse
  /\ UNCHANGED << store, sockets, rooms, now, received >>

\* one tenant, two tickets, two sockets that may emit join-company
NextAgent ==
  \/ NextOf({"s1", "s2"}, {"company-1"}, {1, 2}, {"agent"}, {"open"},
            {TextInput}, {0}, MaxMessages)
  \/ \E s \in {"s1", "s2"} :
       /\ JoinCompany(s, "company-1")
       /\ UNCHANGED client

SpecAgent == Init /\ [][NextAgent]_vars

\* one tenant, two tickets; a customer s2 that joins the first ticket and
\* stays connected, and an agent s1 that joins tickets while the customer is
\* in the room of the first, so that the customer has been sent user:joined
\* for every join of the agent to that ticket
NextPresence ==
  \/ /\ nextTicketId \in {1, 2}
     /\ PostTicket("company-1", "cust-1", "Ana", 0, 0)
     /\ UNCHANGED client
  \/ \E s \in {"s1", "s2"} :
       /\ Connect(s)
       /\ UNCHANGED client
  \/ /\ JoinTicket("s2", "company-1", 1, "customer", "Ana", 0)
     /\ UNCHANGED client
  \/ \E ticketId \in {1, 2} :
       /\ TicketRoom(1) \in rooms["s2"]
       /\ JoinTicket("s1", "company-1", ticketId, "agent", "Ana", 0)
       /\ UNCHANGED client
  \/ \E s \in {"s1", "s2"}, ticketId \in {1, 2} :
       /\ nextMessageId <= MaxMessages
       /\ MessageSend(s, ticketId, TextInput, 0, 0)
       /\ UNCHANGED client
  \/ /\ Disconnect("s1", 0)
     /\ UNCHANGED client

SpecPresence == Init /\ [][NextPresence]_vars

\* ------------------------------------------------ the React agent client
\* the payload of handleSendMessage
AgentInput ==
  [ sender |-> "Ana", senderType |-> "agent", content |-> "Ola",
    mediaType |-> "undefined", mediaUrl |-> "undefined" ]

\* connectWebSocket, run by the effect on mount and after every cleanup:
\* io() opens a socket and socketRef.current is set to it
AgentConnectWebSocket(new) ==
  /\ client.pc \in {"unmounted", "effect"}
  /\ Connect(new)
  /\ client' = [ client EXCEPT !.socketRef = new, !.pc = "connecting" ]

\* socket.on('connect'): the client emits join-company, and nothing else
AgentOnConnect ==
  /\ client.pc = "connecting"
  /\ JoinCompany(client.socketRef, "company-1")
  /\ client' = [ client EXCEPT !.pc = "idle" ]

\* selectTicket: setSelectedTicket(ticket), then join-ticket is emitted on
\* socketRef.current, the socket of the render before; a ticket object
\* that is not the one selected (fresh) changes the state, and the
\* component renders again
AgentSelectTicket(ticketId, fresh) ==
  /\ client.pc = "idle"
  /\ hasTicket(ticketId)
  /\ JoinTicket(client.socketRef, "company-1", ticketId, "agent", "Ana", 0)
  /\ client' = [ client EXCEPT
                   !.selectedTicket = ticketId,
                   !.pc = IF client.selectedTicket # ticketId \/ fresh
                          THEN "rerender" ELSE "idle" ]

\* selectedTicket is a dependency of connectWebSocket and connectWebSocket
\* one of the effect: after the render the cleanup of the effect runs,
\* socketRef.current.disconnect()
AgentEffectCleanup ==
  /\ client.pc = "rerender"
  /\ Disconnect(client.socketRef, 0)
  /\ client' = [ client EXCEPT !.pc = "effect" ]

\* handleSendMessage: returns at once when no ticket is selected
AgentSendMessage ==
  /\ client.pc = "idle"
  /\ client.selectedTicket # 0
  /\ MessageSend(client.socketRef, client.selectedTicket, AgentInput, 0, 0)
  /\ UNCHANGED client

\* the dashboard of one agent of one tenant, whose sockets are s1 and s2 in
\* turn, and a customer on socket s3; two tickets
NextClient ==
  \/ /\ nextTicketId \in {1, 2}
     /\ PostTicket("company-1", "cust-1", "Ana", 0, 0)
     /\ UNCHANGED client
  \/ /\ Connect("s3")
     /\ UNCHANGED client
  \/ \E ticketId \in {1, 2} :
       /\ JoinTicket("s3", "company-1", ticketId, "customer", "Ana", 0)
       /\ UNCHANGED client
  \/ \E ticketId \in {1, 2} :
       /\ nextMessageId <= ClientMaxMessages
       /\ MessageSend("s3", ticketId, TextInput, 0, 0)
       /\ UNCHANGED client
  \/ \E new \in {"s1", "s2"} : AgentConnectWebSocket(new)
  \/ AgentOnConnect
  \/ \E ticketId \in {1, 2}, fresh \in BOOLEAN :
       AgentSelectTicket(ticketId, fresh)
  \/ AgentEffectCleanup
  \/ /\ nextMessageId <= ClientMaxMessages
     /\ AgentSendMessage

SpecClient == Init /\ [][NextClient]_vars

\* ------------------------------------------------------------ properties
IsPrefix(a, b) == Len(a) <= Len(b) /\ SubSeq(b, 1, Len(a)) = a

IsSuffix(a, b) ==
  Len(a) <= Len(b) /\ SubSeq(b, Len(b) - Len(a) + 1, Len(b)) = a

Ids(log) == [ i \in 1..Len(log) |-> log[i].id ]

\* the events of one type a socket was sent by the last handler
EventsOf(s, type) == SelectSeq(emitted[s], LAMBDA e : e.type = type)

\* the last handler was a message:send that passed both checks (the handler
\* leaves the registry as it was)
SendAccepted ==
  /\ lastOp.op = "message:send"
  /\ lastOp.socket \in DOMAIN connections
  /\ connections[lastOp.socket].ticketId = lastOp.ticketId

\* the last handler was a join-ticket that passed both checks (the handler
\* leaves the tickets as they were)
JoinAccepted ==
  /\ lastOp.op = "join-ticket"
  /\ lastOp.ticketId \in DOMAIN tickets
  /\ tickets[lastOp.ticketId].companyId = lastOp.companyId

\* the Message an accepted message:send stores, but for its id and timestamp
Carries(message, ticketId, in) ==
  /\ message.ticketId = ticketId
  /\ message.sender = in.sender
  /\ message.senderType = in.senderType
  /\ message.content = in.content

\* C1: the message log of every ticket is append-only. Every step leaves
\* each log as it was or adds one message at its end; it adds one exactly
\* when the step is an accepted message:send to that ticket, and the message
\* added is the one that was sent. No step modifies, reorders or removes a
\* stored message.
C1_LogAppendOnly ==
  [][ \A t \in DOMAIN tickets' :
        LET old == getMessagesByTicket(t)
            new == getMessagesByTicket(t)'
        IN /\ IsPrefix(old, new)
           /\ Len(new) <= Len(old) + 1
           /\ (Len(new) = Len(old) + 1)
                <=> (SendAccepted' /\ lastOp'.ticketId = t)
           /\ (Len(new) = Len(old) + 1)
                => Carries(new[Len(new)], t, lastOp'.in) ]_vars

\* a second message has just been appended to the log of ticket 1
C1_Witness ==
  /\ SendAccepted
  /\ lastOp.ticketId = 1
  /\ Len(getMessagesByTicket(1)) >= 2

\* the ids of the messages of ticket t among those a socket has received
ReceivedOf(s, t) ==
  SelectSeq(received[s],
            LAMBDA id : id \in DOMAIN messages /\ messages[id].ticketId = t)

\* the positions of message id in the log of its ticket
PositionsOf(id) ==
  LET log == getMessagesByTicket(messages[id].ticketId)
  IN { i \in 1..Len(log) : log[i].id = id }

\* C2: whatever the order in which the message:send handlers of several
\* sockets run, every message stored is in the log of its ticket exactly
\* once, and what each socket has been sent as message:received for a ticket
\* since it connected is a final segment of that log, in the order of the
\* log.
C2_SendsTotallyOrdered ==
  /\ \A id \in DOMAIN messages : Cardinality(PositionsOf(id)) = 1
  /\ \A t \in DOMAIN ticketMessages :
       /\ \A i \in 1..Len(ticketMessages[t]) :
            ticketMessages[t][i].id \in DOMAIN messages
       /\ \A s \in SocketIds :
            IsSuffix(ReceivedOf(s, t), Ids(ticketMessages[t]))

\* two sockets are in the room of ticket 1, sends under two sender names
\* have been stored, and both sockets were sent the same two messages
C2_Witness ==
  /\ SendAccepted
  /\ \A s \in {"s1", "s2"} : TicketRoom(1) \in rooms[s]
  /\ Len(getMessagesByTicket(1)) >= 2
  /\ getMessagesByTicket(1)[1].sender # getMessagesByTicket(1)[2].sender
  /\ received["s1"] = received["s2"]
  /\ Len(received["s1"]) >= 2

\* C3: GET /api/tickets/:companyId/:ticketId for a ticket of another company
\* is answered 403 Access denied, with no ticket and no messages in the
\* answer; the list of tickets of a company holds only tickets of that
\* company.
C3_HttpTenantIsolation ==
  /\ ( /\ lastOp.op = "GET /api/tickets/:companyId/:ticketId"
       /\ lastOp.ticketId \in DOMAIN tickets
       /\ tickets[lastOp.ticketId].companyId # lastOp.companyId )
       => response = [ status |-> 403, error |-> "Access denied" ]
  /\ lastOp.op = "GET /api/tickets/:companyId"
       => \A i \in 1..Len(response.tickets) :
            response.tickets[i].companyId = lastOp.companyId
  /\ \A c \in CompanyIdInputs \cup {"company-9"} :
       \A i \in 1..Len(getTicketsByCompany(c)) :
         getTicketsByCompany(c)[i].companyId = c

\* a ticket that holds a message has been asked for under the other company
C3_Witness ==
  /\ lastOp.op = "GET /api/tickets/:companyId/:ticketId"
  /\ lastOp.ticketId \in DOMAIN tickets
  /\ tickets[lastOp.ticketId].companyId # lastOp.companyId
  /\ lastOp.companyId \in CompanyIds
  /\ Len(getMessagesByTicket(lastOp.ticketId)) >= 1
  /\ response.status = 403

\* the tickets an event tells its recipient about
ConcernedTickets(e) ==
  CASE e.type = "ticket:history" ->
         { e.messages[i].ticketId : i \in 1..Len(e.messages) }
    [] e.type = "message:received" -> { e.message.ticketId }
    [] e.type \in {"ticket:updated", "ticket:status-updated"} -> { e.ticketId }
    [] e.type \in {"typing:update", "user:joined", "user:left"} -> { e.to[2] }
    [] OTHER -> {}

\* C4: no socket is sent an event about a ticket of a company other than
\* the company of the socket's registry entry.
C4_SocketTenantIsolation ==
  \A s \in SocketIds : \A i \in 1..Len(emitted[s]) :
    \A t \in ConcernedTickets(emitted[s][i]) \cap DOMAIN tickets :
      /\ s \in DOMAIN connections
      /\ connections[s].companyId = tickets[t].companyId

\* socket s was sent one error event with this text and no socket anything
\* else
OnlyErrorTo(em, s, text) ==
  /\ em[s] = << [ type |-> "error", to |-> << "socket", s >>,
                  errorMessage |-> text ] >>
  /\ \A r \in SocketIds \ {s} : em[r] = << >>

\* C5: join-ticket for an unknown ticket is answered 'Ticket not found' and
\* for a ticket of another company 'Access denied'; either way the answer is
\* the only event sent (no ticket:history, no user:joined), and the rooms of
\* the socket and the registry are left as they were.
C5_JoinRejected ==
  [][ lastOp'.op = "join-ticket" =>
        LET s == lastOp'.socket
            t == lastOp'.ticketId
        IN /\ t \notin DOMAIN tickets =>
                /\ OnlyErrorTo(emitted', s, "Ticket not found")
                /\ UNCHANGED << connections, rooms >>
           /\ (t \in DOMAIN tickets
                 /\ tickets[t].companyId # lastOp'.companyId) =>
                /\ OnlyErrorTo(emitted', s, "Access denied")
                /\ UNCHANGED << connections, rooms >> ]_vars

\* a socket that has a registry entry has been refused a ticket of the
\* other company while another socket is in the room of that ticket
C5_Witness ==
  /\ lastOp.op = "join-ticket"
  /\ lastOp.ticketId \in DOMAIN tickets
  /\ tickets[lastOp.ticketId].companyId # lastOp.companyId
  /\ lastOp.socket \in DOMAIN connections
  /\ \E r \in SocketIds \ {lastOp.socket} :
       TicketRoom(lastOp.ticketId) \in rooms[r]
  /\ EventsOf(lastOp.socket, "error") # << >>

\* C6: an accepted join-ticket sends the joining socket ticket:history with
\* the whole log of the ticket, and nothing else; every other socket in the
\* room of the ticket is sent one user:joined with the role and the name of
\* the joiner, and nothing else; the sockets outside the room are sent
\* nothing.
C6_JoinEffects ==
  JoinAccepted =>
    LET s == lastOp.socket
        t == lastOp.ticketId
    IN /\ emitted[s] =
            << [ type |-> "ticket:history", to |-> << "socket", s >>,
                 messages |-> getMessagesByTicket(t) ] >>
       /\ \A r \in SocketIds \ {s} :
            IF TicketRoom(t) \in rooms[r]
            THEN /\ Len(emitted[r]) = 1
                 /\ emitted[r][1].type = "user:joined"
                 /\ emitted[r][1].userType = lastOp.userType
                 /\ emitted[r][1].userName = lastOp.userName
            ELSE emitted[r] = << >>

\* a socket has joined a ticket that holds a message and has another socket
\* in its room
C6_Witness ==
  /\ JoinAccepted
  /\ Len(getMessagesByTicket(lastOp.ticketId)) >= 1
  /\ \E r \in SocketIds \ {lastOp.socket} :
       /\ TicketRoom(lastOp.ticketId) \in rooms[r]
       /\ EventsOf(r, "user:joined") # << >>
  /\ EventsOf(lastOp.socket, "ticket:history") # << >>

\* the message an accepted message:send has stored
StoredMessage == ticketMessages[lastOp.ticketId][Len(ticketMessages[lastOp.ticketId])]

\* C7: an accepted message:send sends message:received, carrying the
\* message just stored, once to every socket in the room of the ticket, the
\* sender among them, and to no other socket; the sockets registered in the
\* ticket are all in its room.
C7_MessageEcho ==
  SendAccepted =>
    LET s == lastOp.socket
        t == lastOp.ticketId
    IN /\ Len(getMessagesByTicket(t)) >= 1
       /\ Carries(StoredMessage, t, lastOp.in)
       /\ TicketRoom(t) \in rooms[s]
       /\ \A r \in getConnectionsByTicket(t) : TicketRoom(t) \in rooms[r]
       /\ \A r \in SocketIds :
            EventsOf(r, "message:received") =
              IF TicketRoom(t) \in rooms[r]
              THEN << [ type |-> "message:received", to |-> TicketRoom(t),
                        message |-> StoredMessage ] >>
              ELSE << >>

\* a message has been sent to a ticket that has a second socket in its room
\* while a third socket is in the room of another ticket
C7_Witness ==
  /\ SendAccepted
  /\ \E r \in SocketIds \ {lastOp.socket} :
       /\ TicketRoom(lastOp.ticketId) \in rooms[r]
       /\ EventsOf(r, "message:received") # << >>
  /\ \E r \in SocketIds \ {lastOp.socket} :
       /\ rooms[r] # {}
       /\ TicketRoom(lastOp.ticketId) \notin rooms[r]
  /\ EventsOf(lastOp.socket, "message:received") # << >>

\* C8: message:send from a socket with no registry entry is answered 'Not
\* connected to a ticket'; the answer is the only event sent (no
\* message:received, no ticket:updated), and no message is stored and no
\* ticket changed.
C8_SendNotInRoom ==
  [][ (lastOp'.op = "message:send" /\ lastOp'.socket \notin DOMAIN connections)
        => /\ OnlyErrorTo(emitted', lastOp'.socket, "Not connected to a ticket")
           /\ UNCHANGED << store, rooms, received >> ]_vars

\* a socket with no registry entry has sent a message to a ticket that has
\* another socket in its room
C8_Witness ==
  /\ lastOp.op = "message:send"
  /\ lastOp.socket \notin DOMAIN connections
  /\ lastOp.ticketId \in DOMAIN tickets
  /\ \E r \in SocketIds \ {lastOp.socket} :
       TicketRoom(lastOp.ticketId) \in rooms[r]
  /\ EventsOf(lastOp.socket, "error") # << >>

\* C9: message:send for a ticket other than the one of the sender's
\* registry entry is answered 'Access denied', sends nothing else and
\* changes nothing; and whenever the log of a ticket changes, the step is a
\* message:send from a socket whose registry entry names that ticket.
C9_SendOtherTicket ==
  [][ /\ ( /\ lastOp'.op = "message:send"
           /\ lastOp'.socket \in DOMAIN connections
           /\ connections[lastOp'.socket].ticketId # lastOp'.ticketId )
           => /\ OnlyErrorTo(emitted', lastOp'.socket, "Access denied")
              /\ UNCHANGED << store, rooms, received >>
      /\ \A t \in DOMAIN tickets' :
           getMessagesByTicket(t)' # getMessagesByTicket(t)
             => /\ lastOp'.op = "message:send"
                /\ lastOp'.socket \in DOMAIN connections
                /\ connections[lastOp'.socket].ticketId = t ]_vars

\* a socket registered in one ticket has sent a message to another ticket,
\* which has another socket in its room
C9_Witness ==
  /\ lastOp.op = "message:send"
  /\ lastOp.socket \in DOMAIN connections
  /\ connections[lastOp.socket].ticketId # lastOp.ticketId
  /\ lastOp.ticketId \in DOMAIN tickets
  /\ \E r \in SocketIds \ {lastOp.socket} :
       TicketRoom(lastOp.ticketId) \in rooms[r]
  /\ EventsOf(lastOp.socket, "error") # << >>

\* the company of the ticket of the last message:send
SendCompany == tickets[lastOp.ticketId].companyId

\* C10, as claimed: an accepted message:send sends ticket:updated once to
\* every socket that is in the room of the company and not in the room of
\* the ticket, and to no socket in the room of the ticket.
C10_AsClaimed ==
  SendAccepted =>
    \A r \in SocketIds :
      Len(EventsOf(r, "ticket:updated")) =
        IF /\ CompanyRoom(SendCompany) \in rooms[r]
           /\ TicketRoom(lastOp.ticketId) \notin rooms[r]
        THEN 1 ELSE 0

\* C10, amended: an accepted message:send sends ticket:updated, with the
\* ticket id and the message just stored, once to every socket in the room
\* of the company other than the sender, the other sockets in the room of
\* the ticket among them, and to no other socket; the sender is sent none.
C10_TicketUpdated ==
  SendAccepted =>
    \A r \in SocketIds :
      EventsOf(r, "ticket:updated") =
        IF CompanyRoom(SendCompany) \in rooms[r] /\ r # lastOp.socket
        THEN << [ type |-> "ticket:updated", to |-> CompanyRoom(SendCompany),
                  ticketId |-> lastOp.ticketId,
                  lastMessage |-> StoredMessage ] >>
        ELSE << >>

\* a message has been sent to a ticket that has a second socket in its room
\* while a third socket is in the room of the company only; both were sent
\* ticket:updated
C10_Witness ==
  /\ SendAccepted
  /\ \E r \in SocketIds \ {lastOp.socket} :
       /\ TicketRoom(lastOp.ticketId) \in rooms[r]
       /\ EventsOf(r, "ticket:updated") # << >>
  /\ \E r \in SocketIds \ {lastOp.socket} :
       /\ TicketRoom(lastOp.ticketId) \notin rooms[r]
       /\ CompanyRoom(SendCompany) \in rooms[r]
       /\ EventsOf(r, "ticket:updated") # << >>
  /\ EventsOf(lastOp.socket, "ticket:updated") = << >>

\* the last handler was typing:start or typing:stop
TypingDone == lastOp.op \in {"typing:start", "typing:stop"}

\* C11: typing:start and typing:stop send typing:update, with the name
\* given and isTyping true for start and false for stop, once to every
\* socket in the room of the ticket other than the sender, and nothing to
\* the sender or to any other socket; they leave the tickets, the logs and
\* the registry as they were.
C11_TypingRelay ==
  [][ TypingDone' =>
        /\ \A r \in SocketIds :
             emitted'[r] =
               IF r # lastOp'.socket /\ TicketRoom(lastOp'.ticketId) \in rooms'[r]
               THEN << [ type |-> "typing:update",
                         to |-> TicketRoom(lastOp'.ticketId),
                         userName |-> lastOp'.userName,
                         isTyping |-> (lastOp'.op = "typing:start") ] >>
               ELSE << >>
        /\ UNCHANGED << store, rooms >> ]_vars

\* a socket in the room of a ticket that holds a message has stopped
\* typing; a second socket in the room was told, a third socket in another
\* room was not
C11_Witness ==
  /\ lastOp.op = "typing:stop"
  /\ TicketRoom(lastOp.ticketId) \in rooms[lastOp.socket]
  /\ Len(getMessagesByTicket(lastOp.ticketId)) >= 1
  /\ emitted[lastOp.socket] = << >>
  /\ \E r \in SocketIds \ {lastOp.socket} :
       /\ TicketRoom(lastOp.ticketId) \in rooms[r]
       /\ EventsOf(r, "typing:update") # << >>
  /\ \E r \in SocketIds \ {lastOp.socket} :
       /\ rooms[r] # {}
       /\ TicketRoom(lastOp.ticketId) \notin rooms[r]
       /\ emitted[r] = << >>

\* the last handler was PUT /api/tickets/:companyId/:ticketId/status
PutDone == lastOp.op = "PUT /api/tickets/:companyId/:ticketId/status"

\* the last handler was a PUT status that passed both checks
PutAccepted ==
  /\ PutDone
  /\ lastOp.ticketId \in DOMAIN tickets
  /\ tickets[lastOp.ticketId].companyId = lastOp.companyId

\* no socket was sent anything
NothingEmitted(em) == \A r \in SocketIds : em[r] = << >>

\* C12: PUT status is answered 404 'Ticket not found' for an unknown ticket
\* and 403 'Access denied' for a ticket of another company; either way no
\* ticket changes (status and updatedAt stay) and no socket is sent
\* ticket:status-updated or anything else.
C12_PutStatusRejected ==
  [][ PutDone' =>
        LET t == lastOp'.ticketId
        IN /\ t \notin DOMAIN tickets =>
                /\ response' = [ status |-> 404, error |-> "Ticket not found" ]
                /\ NothingEmitted(emitted')
                /\ UNCHANGED store
           /\ (t \in DOMAIN tickets
                 /\ tickets[t].companyId # lastOp'.companyId) =>
                /\ response' = [ status |-> 403, error |-> "Access denied" ]
                /\ NothingEmitted(emitted')
                /\ UNCHANGED store ]_vars

\* a status other than its current one was refused for a ticket of the
\* other company, which has a socket in its room
C12_Witness ==
  /\ PutDone
  /\ lastOp.ticketId \in DOMAIN tickets
  /\ tickets[lastOp.ticketId].companyId # lastOp.companyId
  /\ tickets[lastOp.ticketId].status # lastOp.status
  /\ \E r \in SocketIds : TicketRoom(lastOp.ticketId) \in rooms[r]
  /\ response.status = 403

\* the places of ticket t in the list of company c
PlacesInList(c, t) ==
  { i \in 1..Len(getTicketsByCompany(c)) : getTicketsByCompany(c)[i].id = t }

\* C13: an accepted PUT status sets the status of the ticket to the one
\* given, answers with the ticket, and sends ticket:status-updated with the
\* ticket id and that status once to every socket in the room of the ticket
\* and to no other socket; the list of the company then shows the ticket,
\* once, with that status.
C13_PutStatusApplied ==
  PutAccepted =>
    LET t == lastOp.ticketId
        c == lastOp.companyId
    IN /\ tickets[t].status = lastOp.status
       /\ response = [ status |-> 200, ticket |-> tickets[t] ]
       /\ \A r \in SocketIds :
            emitted[r] =
              IF TicketRoom(t) \in rooms[r]
              THEN << [ type |-> "ticket:status-updated",
                        to |-> TicketRoom(t), ticketId |-> t,
                        status |-> lastOp.status ] >>
              ELSE << >>
       /\ Cardinality(PlacesInList(c, t)) = 1
       /\ \A i \in PlacesInList(c, t) :
            getTicketsByCompany(c)[i].status = lastOp.status

\* a ticket has been closed while one socket was in its room and another
\* in the room of another ticket
C13_Witness ==
  /\ PutAccepted
  /\ lastOp.status = "closed"
  /\ \E r \in SocketIds :
       /\ TicketRoom(lastOp.ticketId) \in rooms[r]
       /\ EventsOf(r, "ticket:status-updated") # << >>
  /\ \E r \in SocketIds :
       /\ rooms[r] # {}
       /\ TicketRoom(lastOp.ticketId) \notin rooms[r]
  /\ Len(getTicketsByCompany(lastOp.companyId)) >= 1

\* C14: an accepted PUT status that gives the status the ticket already
\* has leaves the status as it was and changes nothing of the ticket but
\* updatedAt, which is set to the time of the call; the event sent and the
\* status answered are those of the call before when that was the same
\* request.
C14_PutStatusIdempotent ==
  [][ (PutAccepted' /\ lastOp'.was = lastOp'.status) =>
        LET t == lastOp'.ticketId
        IN /\ tickets'[t].status = tickets[t].status
           /\ tickets' = [ tickets EXCEPT ![t].updatedAt = now' ]
           /\ now' >= tickets[t].updatedAt
           /\ \A r \in SocketIds :
                emitted'[r] =
                  IF TicketRoom(t) \in rooms[r]
                  THEN << [ type |-> "ticket:status-updated",
                            to |-> TicketRoom(t), ticketId |-> t,
                            status |-> tickets[t].status ] >>
                  ELSE << >>
           /\ (PutAccepted /\ lastOp.ticketId = t
                 /\ lastOp.status = lastOp'.status) =>
                /\ emitted' = emitted
                /\ response'.ticket.status = response.ticket.status ]_vars

\* a closed ticket with a socket in its room has been closed again, a
\* millisecond or more after it was created
C14_Witness ==
  /\ PutAccepted
  /\ lastOp.was = "closed"
  /\ lastOp.status = "closed"
  /\ tickets[lastOp.ticketId].updatedAt > tickets[lastOp.ticketId].createdAt
  /\ tickets[lastOp.ticketId].updatedAt = now
  /\ \E r \in SocketIds :
       EventsOf(r, "ticket:status-updated") # << >>

\* C15: when a socket that has a registry entry disconnects, user:left
\* with the role of the entry is sent once to every other socket in the room
\* of the ticket of the entry, and nothing to the socket itself or to any
\* other socket; its entry is then removed and the other entries stay. When
\* a socket with no registry entry disconnects, nothing is sent and neither
\* the store nor the rooms change.
C15_DisconnectEffects ==
  [][ lastOp'.op = "disconnect" =>
        LET s == lastOp'.socket
        IN IF s \in DOMAIN connections
           THEN /\ \A r \in SocketIds :
                     emitted'[r] =
                       IF r # s /\ TicketRoom(connections[s].ticketId) \in rooms[r]
                       THEN << [ type |-> "user:left",
                                 to |-> TicketRoom(connections[s].ticketId),
                                 userType |-> connections[s].userType,
                                 timestamp |-> now' ] >>
                       ELSE << >>
                /\ DOMAIN connections' = DOMAIN connections \ {s}
                /\ \A r \in DOMAIN connections' : connections'[r] = connections[r]
                /\ UNCHANGED << companyTickets, tickets, messages,
                                ticketMessages >>
           ELSE /\ NothingEmitted(emitted')
                /\ UNCHANGED << store, rooms >> ]_vars

\* a socket has left a ticket while another socket was in its room: the
\* other one was told, and the registry no longer has the first
C15_Witness ==
  /\ lastOp.op = "disconnect"
  /\ lastOp.socket \notin DOMAIN connections
  /\ emitted[lastOp.socket] = << >>
  /\ \E r \in SocketIds \ {lastOp.socket} :
       /\ r \in DOMAIN connections
       /\ EventsOf(r, "user:left") # << >>

\* C16: the sockets in the room of a ticket, which are sent what is
\* broadcast to the ticket, are exactly the sockets whose registry entry
\* names the ticket; so a socket is in the room of one ticket at most.
C16_OneTicketRoom ==
  /\ \A t \in TicketIdInputs :
       InRoom(rooms, TicketRoom(t)) = getConnectionsByTicket(t)
  /\ \A s \in SocketIds :
       Cardinality({ t \in TicketIdInputs : TicketRoom(t) \in rooms[s] }) <= 1

\* C17: the sockets in the room of a company are exactly the sockets whose
\* registry entry names the company.
C17_CompanyRoomIsRegistry ==
  \A c \in CompanyIdInputs :
    InRoom(rooms, CompanyRoom(c)) = getConnectionsByCompany(c)

\* C18: when a socket whose registry entry names one ticket joins another
\* ticket, its entry is replaced by one for the new ticket, the entries of
\* the other sockets stay, and no socket is sent user:left; a socket that
\* is in the room of the old ticket and not of the new one is sent nothing.
C18_RejoinWithoutLeave ==
  [][ ( /\ JoinAccepted'
        /\ lastOp'.socket \in DOMAIN connections
        /\ connections[lastOp'.socket].ticketId # lastOp'.ticketId ) =>
        LET s == lastOp'.socket
            old == connections[s].ticketId
        IN /\ connections' =
                [ connections EXCEPT
                    ![s] = [ companyId |-> lastOp'.companyId,
                             ticketId |-> lastOp'.ticketId,
                             userType |-> lastOp'.userType ] ]
           /\ \A r \in SocketIds : \A i \in 1..Len(emitted'[r]) :
                emitted'[r][i].type # "user:left"
           /\ \A r \in SocketIds \ {s} :
                ( /\ TicketRoom(old) \in rooms[r]
                  /\ TicketRoom(lastOp'.ticketId) \notin rooms[r] )
                  => emitted'[r] = << >> ]_vars

\* a socket that is in the room of one ticket has joined another ticket,
\* which its registry entry now names, while a second socket is registered
\* in the first ticket and was sent nothing
C18_Witness ==
  /\ JoinAccepted
  /\ lastOp.socket \in DOMAIN connections
  /\ connections[lastOp.socket].ticketId = lastOp.ticketId
  /\ \E t \in TicketIdInputs \ {lastOp.ticketId} :
       /\ TicketRoom(t) \in rooms[lastOp.socket]
       /\ \E r \in SocketIds \ {lastOp.socket} :
            /\ r \in DOMAIN connections
            /\ connections[r].ticketId = t
            /\ emitted[r] = << >>

\* the list of company c holds the tickets of c and no others, each once
\* and as stored, a ticket before every ticket with a smaller updatedAt;
\* GET /api/tickets/:companyId answers with that list
ListIsSorted(c) ==
  LET list == getTicketsByCompany(c)
  IN /\ { list[i].id : i \in 1..Len(list) } =
          { t \in DOMAIN tickets : tickets[t].companyId = c }
     /\ \A i, j \in 1..Len(list) : list[i].id = list[j].id => i = j
     /\ \A i \in 1..Len(list) : list[i] = tickets[list[i].id]
     /\ \A i, j \in 1..Len(list) :
          i < j => list[i].updatedAt >= list[j].updatedAt
     /\ (lastOp.op = "GET /api/tickets/:companyId" /\ lastOp.companyId = c)
          => response = [ status |-> 200, tickets |-> list ]

\* the last handler stored a message in a ticket or set the status of one
Touched == SendAccepted \/ PutAccepted

\* C19, as claimed: the list of a company holds exactly its tickets, each
\* once, by non-increasing updatedAt, and the ticket last touched by a
\* message or a status change is the first of the list.
C19_AsClaimed ==
  /\ \A c \in CompanyIdInputs \cup {"company-9"} : ListIsSorted(c)
  /\ Touched =>
       getTicketsByCompany(tickets[lastOp.ticketId].companyId)[1].id
         = lastOp.ticketId

\* C19, amended: the list of a company holds exactly its tickets, each
\* once, by non-increasing updatedAt, tickets with equal updatedAt in the
\* order they were created; the ticket last touched by a message or a
\* status change has the greatest updatedAt, and the tickets before it in
\* the list are older tickets with the same updatedAt.
C19_ListByUpdatedAt ==
  /\ \A c \in CompanyIdInputs \cup {"company-9"} :
       /\ ListIsSorted(c)
       /\ \A i, j \in 1..Len(getTicketsByCompany(c)) :
            ( /\ i < j
              /\ getTicketsByCompany(c)[i].updatedAt
                   = getTicketsByCompany(c)[j].updatedAt )
              => getTicketsByCompany(c)[i].id < getTicketsByCompany(c)[j].id
  /\ Touched =>
       LET t == lastOp.ticketId
           list == getTicketsByCompany(tickets[t].companyId)
       IN /\ tickets[t].updatedAt = now
          /\ \A i \in 1..Len(list) :
               /\ list[i].updatedAt <= tickets[t].updatedAt
               /\ (\E j \in i..Len(list) : list[j].id = t /\ i # j)
                    => /\ list[i].updatedAt = tickets[t].updatedAt
                       /\ list[i].id < t

\* the older of two tickets has been touched after the newer one was
\* created, and is now the first of the list
C19_Witness ==
  /\ Touched
  /\ lastOp.ticketId = 1
  /\ Len(getTicketsByCompany("company-1")) = 2
  /\ getTicketsByCompany("company-1")[1].id = 1
  /\ getTicketsByCompany("company-1")[1].updatedAt
       > getTicketsByCompany("company-1")[2].updatedAt
  /\ tickets[2].createdAt > tickets[1].createdAt

\* C20: a stored message and an accepted status change set updatedAt of
\* their ticket to the time of the handler; updatedAt of a ticket never
\* decreases and is never before createdAt, which never changes; and a step
\* that changes updatedAt of a ticket is a stored message or an accepted
\* status change of that ticket.
C20_UpdatedAtRefreshed ==
  [][ \A t \in DOMAIN tickets' :
        /\ tickets'[t].updatedAt >= tickets'[t].createdAt
        /\ tickets'[t].updatedAt <= now'
        /\ (Touched' /\ lastOp'.ticketId = t) => tickets'[t].updatedAt = now'
        /\ t \in DOMAIN tickets =>
             /\ tickets'[t].createdAt = tickets[t].createdAt
             /\ tickets'[t].updatedAt >= tickets[t].updatedAt
             /\ tickets'[t].updatedAt # tickets[t].updatedAt
                  => (Touched' /\ lastOp'.ticketId = t) ]_vars

\* a message has been stored in a ticket a millisecond or more after the
\* ticket was created, while the other ticket keeps an earlier updatedAt
C20_Witness ==
  /\ SendAccepted
  /\ tickets[lastOp.ticketId].updatedAt = now
  /\ tickets[lastOp.ticketId].updatedAt > tickets[lastOp.ticketId].createdAt
  /\ Len(getMessagesByTicket(lastOp.ticketId)) >= 1
  /\ \E t \in DOMAIN tickets : tickets[t].updatedAt < now

\* C21: the status of every ticket is open or closed.
C21_StatusOpenOrClosed ==
  \A t \in DOMAIN tickets : tickets[t].status \in {"open", "closed"}

\* the last handler was POST /api/tickets
PostDone == lastOp.op = "POST /api/tickets"

C23_MessagesHaveTicket ==
  /\ (lastOp.op = "dataStore.createMessage"
        /\ lastOp.ticketId \notin DOMAIN tickets)
       => response.status = 404
  /\ \A id \in DOMAIN messages :
       /\ messages[id].ticketId \in DOMAIN tickets
       /\ \E i \in 1..Len(getMessagesByTicket(messages[id].ticketId)) :
            getMessagesByTicket(messages[id].ticketId)[i] = messages[id]

\* the same for the states the handlers of the server reach: every stored
\* message names a stored ticket and is in the log of that ticket
ServerMessagesHaveTicket ==
  \A id \in DOMAIN messages :
    /\ messages[id].ticketId \in DOMAIN tickets
    /\ \E i \in 1..Len(getMessagesByTicket(messages[id].ticketId)) :
         getMessagesByTicket(messages[id].ticketId)[i] = messages[id]

\* the last handler was a join-ticket or a message:send that was refused
Refused ==
  \/ lastOp.op = "join-ticket" /\ ~ JoinAccepted
  \/ lastOp.op = "message:send" /\ ~ SendAccepted

\* C24: a join-ticket or a message:send that is refused sends one error
\* event to the socket it came from and nothing to any other socket; the
\* socket stays connected, and the store, the registry, the rooms and the
\* clock are as if the request had not been made, so that what the next
\* handler does is what it would have done without it.
C24_RefusalsAreLocal ==
  [][ Refused' =>
        /\ \E text \in {"Ticket not found", "Access denied",
                        "Not connected to a ticket"} :
             OnlyErrorTo(emitted', lastOp'.socket, text)
        /\ lastOp'.socket \in sockets'
        /\ UNCHANGED << store, sockets, rooms, now, received >> ]_vars

\* a socket that is registered in a ticket, with another socket in the
\* room, has asked to join a ticket that is not stored
C24_Witness ==
  /\ lastOp.op = "join-ticket"
  /\ lastOp.ticketId \notin DOMAIN tickets
  /\ lastOp.socket \in DOMAIN connections
  /\ \E r \in SocketIds \ {lastOp.socket} :
       /\ TicketRoom(connections[lastOp.socket].ticketId) \in rooms[r]
       /\ emitted[r] = << >>
  /\ OnlyErrorTo(emitted, lastOp.socket, "Ticket not found")

\* C25: whenever a socket is sent message:received, the message it
\* carries is stored and is the last of the log of its ticket, and updatedAt
\* of the ticket is the time of the handler, not before the timestamp of the
\* message; whenever a socket is sent ticket:status-updated, the ticket has
\* the status the event carries.
C25_BroadcastFollowsCommit ==
  \A s \in SocketIds : \A i \in 1..Len(emitted[s]) :
    LET e == emitted[s][i]
    IN /\ e.type = "message:received" =>
            LET log == getMessagesByTicket(e.message.ticketId)
            IN /\ Len(log) >= 1
               /\ log[Len(log)] = e.message
               /\ e.message.id \in DOMAIN messages
               /\ messages[e.message.id] = e.message
               /\ e.message.ticketId \in DOMAIN tickets
               /\ tickets[e.message.ticketId].updatedAt = now
               /\ tickets[e.message.ticketId].updatedAt >= e.message.timestamp
       /\ e.type = "ticket:status-updated" =>
            /\ e.ticketId \in DOMAIN tickets
            /\ tickets[e.ticketId].status = e.status
            /\ tickets[e.ticketId].updatedAt = now

\* the socket was sent a message stored a millisecond or more after the
\* ticket was created
C25_Witness ==
  /\ SendAccepted
  /\ EventsOf(lastOp.socket, "message:received") # << >>
  /\ tickets[lastOp.ticketId].updatedAt > tickets[lastOp.ticketId].createdAt
  /\ tickets[lastOp.ticketId].status = "closed"

\* updatedAt of the ticket is not before the timestamp of the last
\* message of the log
LogIsCovered(ticket, log) ==
  Len(log) >= 1 => ticket.updatedAt >= log[Len(log)].timestamp

\* C26: in every state a handler can read, the log of a ticket and its
\* updatedAt agree: every message of the log is stored, and updatedAt is not
\* before the timestamp of the last message. What GET ticket answers and
\* what ticket:history carries is the log as stored, and the ticket GET
\* answers with is the ticket as stored.
C26_NoPartialAppend ==
  /\ \A t \in DOMAIN tickets :
       /\ LogIsCovered(tickets[t], getMessagesByTicket(t))
       /\ \A i \in 1..Len(getMessagesByTicket(t)) :
            LET m == getMessagesByTicket(t)[i]
            IN m.id \in DOMAIN messages /\ messages[m.id] = m
  /\ (lastOp.op = "GET /api/tickets/:companyId/:ticketId"
        /\ response.status = 200) =>
       /\ response.ticket = tickets[lastOp.ticketId]
       /\ response.messages = getMessagesByTicket(lastOp.ticketId)
       /\ LogIsCovered(response.ticket, response.messages)
  /\ JoinAccepted =>
       \A i \in 1..Len(emitted[lastOp.socket]) :
         emitted[lastOp.socket][i].type = "ticket:history" =>
           /\ emitted[lastOp.socket][i].messages
                = getMessagesByTicket(lastOp.ticketId)
           /\ LogIsCovered(tickets[lastOp.ticketId],
                           emitted[lastOp.socket][i].messages)

\* a ticket that holds a message stored a millisecond or more after the
\* ticket was created has been read
C26_Witness ==
  /\ lastOp.op = "GET /api/tickets/:companyId/:ticketId"
  /\ response.status = 200
  /\ Len(response.messages) >= 1
  /\ response.messages[1].timestamp > response.ticket.createdAt
  /\ response.ticket.updatedAt >= response.messages[1].timestamp

\* the message:received events of ticket t among the events sent to socket s
MessageEventsOf(em, s, t) ==
  SelectSeq(em[s], LAMBDA e : IF e.type = "message:received"
                              THEN e.message.ticketId = t ELSE FALSE)

\* C27: what is broadcast for a ticket is what is stored in its log, step
\* by step. A step that adds a message to the log of a ticket sends
\* message:received with that message, to the room of the ticket, to one
\* socket or more and to none twice, and sends no other message:received for
\* the ticket; a step that leaves the log as it was sends no
\* message:received for the ticket. So the messages broadcast for a ticket,
\* in the order of their broadcast, are the log.
C27_BroadcastIsLog ==
  [][ \A t \in TicketIdInputs :
        LET old == getMessagesByTicket(t)
            new == getMessagesByTicket(t)'
        IN IF new # old
           THEN /\ Len(new) = Len(old) + 1
                /\ SubSeq(new, 1, Len(old)) = old
                /\ \E s \in SocketIds : MessageEventsOf(emitted', s, t) # << >>
                /\ \A s \in SocketIds :
                     MessageEventsOf(emitted', s, t) \in
                       { << >>,
                         << [ type |-> "message:received",
                              to |-> TicketRoom(t),
                              message |-> new[Len(new)] ] >> }
           ELSE \A s \in SocketIds : MessageEventsOf(emitted', s, t) = << >>
    ]_vars

\* the third message of a ticket has been stored and sent to two sockets
C27_Witness ==
  /\ SendAccepted
  /\ Len(getMessagesByTicket(lastOp.ticketId)) >= 3
  /\ \A s \in {"s1", "s2"} :
       MessageEventsOf(emitted, s, lastOp.ticketId) # << >>
  /\ received["s1"] # received["s2"]

\* socket s is in the room of ticket t2 and not in the room of ticket t1
OnlyIn(rm, s, t2, t1) ==
  TicketRoom(t2) \in rm[s] /\ TicketRoom(t1) \notin rm[s]

\* C28: a stored message and an accepted status change of one ticket leave
\* every other ticket as it was: its record, its log, the sockets in its
\* room and the sockets registered in it; and a socket that is in the room
\* of another ticket and not in the room of this one is sent neither
\* message:received nor ticket:status-updated.
C28_TicketsIndependent ==
  [][ Touched' =>
        \A t2 \in DOMAIN tickets' \ {lastOp'.ticketId} :
          /\ t2 \in DOMAIN tickets
          /\ tickets'[t2] = tickets[t2]
          /\ getMessagesByTicket(t2)' = getMessagesByTicket(t2)
          /\ InRoom(rooms', TicketRoom(t2)) = InRoom(rooms, TicketRoom(t2))
          /\ getConnectionsByTicket(t2)' = getConnectionsByTicket(t2)
          /\ \A s \in SocketIds :
               OnlyIn(rooms, s, t2, lastOp'.ticketId) =>
                 \A i \in 1..Len(emitted'[s]) :
                   emitted'[s][i].type \notin
                     {"message:received", "ticket:status-updated"} ]_vars

\* a message has been stored in one ticket of a company while a socket was
\* in the room of the other ticket of that company only; that ticket
\* keeps its status closed
C28_Witness ==
  /\ SendAccepted
  /\ \E t2 \in DOMAIN tickets \ {lastOp.ticketId} :
       /\ tickets[t2].companyId = tickets[lastOp.ticketId].companyId
       /\ tickets[t2].status = "closed"
       /\ tickets[lastOp.ticketId].status = "open"
       /\ \E s \in SocketIds :
            /\ OnlyIn(rooms, s, t2, lastOp.ticketId)
            /\ EventsOf(s, "message:received") = << >>
            /\ EventsOf(s, "ticket:updated") # << >>

\* C29: a join-ticket naming a company that does not own the ticket is
\* answered as a join-ticket for a ticket that does not exist: the events
\* sent to the requester are those the handler sends, in the same state,
\* for an id no ticket has, and the registry and the rooms are left as they
\* were.
C29_NoExistenceLeak ==
  [][ ( /\ lastOp'.op = "join-ticket"
        /\ lastOp'.ticketId \in DOMAIN tickets
        /\ tickets[lastOp'.ticketId].companyId # lastOp'.companyId )
      => /\ ~ hasTicket(nextTicketId)
         /\ emitted'[lastOp'.socket] =
              << ErrorEvent(lastOp'.socket,
                            JoinCheck(lastOp'.companyId, nextTicketId)) >>
         /\ UNCHANGED << connections, rooms >> ]_vars

\* C30: the id createTicket returns is the id of no ticket created before,
\* and the call leaves every ticket and every log there was as it was; the
\* id createMessage returns is the id of no message stored before, and the
\* call leaves every message there was as it was; no log holds an id twice.
C30_IdsUnique ==
  [][ /\ lastOp'.op = "dataStore.createTicket" =>
           /\ response'.ticket.id \notin DOMAIN tickets
           /\ \A t \in DOMAIN tickets :
                /\ tickets'[t] = tickets[t]
                /\ ticketMessages'[t] = ticketMessages[t]
      /\ lastOp'.op = "dataStore.createMessage" =>
           /\ response'.message.id \notin DOMAIN messages
           /\ \A m \in DOMAIN messages : messages'[m] = messages[m]
           /\ \A t \in DOMAIN ticketMessages' :
                \A i, j \in 1..Len(ticketMessages'[t]) :
                  ticketMessages'[t][i].id = ticketMessages'[t][j].id => i = j
    ]_vars

\* C31: a socket that emits join-company for a company is from then on in
\* the room of that company, and a socket in the room of a company is sent
\* ticket:updated whenever another socket's message is stored in a ticket
\* of that company; so an agent that has emitted join-company and joined
\* no ticket is told of every message of its company.
C31_JoinCompany ==
  [][ /\ lastOp'.op = "join-company" =>
           CompanyRoom(lastOp'.companyId) \in rooms'[lastOp'.socket]
      /\ SendAccepted' =>
           \A r \in SocketIds \ {lastOp'.socket} :
             CompanyRoom(SendCompany') \in rooms'[r] =>
               Len(SelectSeq(emitted'[r],
                             LAMBDA e : e.type = "ticket:updated")) = 1
    ]_vars

\* a message:send payload without media fields
NoMedia(in) == in.mediaType = "undefined" /\ in.mediaUrl = "undefined"

ReceivedMessages(evs) ==
  LET rs == SelectSeq(evs, LAMBDA e : e.type = "message:received")
  IN [ i \in 1..Len(rs) |-> rs[i].message ]

\* the messages of the ticket:history events among the events evs
HistoryMessages(evs) ==
  LET hs == SelectSeq(evs, LAMBDA e : e.type = "ticket:history")
  IN [ i \in 1..Len(hs) |-> hs[i].messages ]

\* the log of ticket t after the step
LogAfter(t) ==
  IF t \in DOMAIN ticketMessages' THEN ticketMessages'[t] ELSE << >>

\* C33: what a socket shows of its ticket is the log of the ticket. The
\* handler of an accepted join-ticket sends the socket one ticket:history
\* with the whole log as it is after the handler, and no message:received;
\* and every later handler, until the socket joins again or disconnects,
\* sends it as message:received the messages the handler adds to the log of
\* that ticket, in their order, and no others. So ticket:history followed
\* by the message:received since is the log, whatever the order in which
\* the join and the sends of the other sockets are handled.
C33_ViewIsLog ==
  [][ \A s \in SocketIds :
        /\ (lastOp'.op = "join-ticket" /\ lastOp'.socket = s /\ JoinAccepted')
             => /\ HistoryMessages(emitted'[s]) =
                     << LogAfter(lastOp'.ticketId) >>
                /\ ReceivedMessages(emitted'[s]) = << >>
        /\ ( /\ s \in DOMAIN connections
             /\ s \in DOMAIN connections'
             /\ ~ ( /\ lastOp'.op = "join-ticket"
                    /\ lastOp'.socket = s
                    /\ JoinAccepted' ) )
             => LET old == getMessagesByTicket(connections[s].ticketId)
                    new == LogAfter(connections[s].ticketId)
                IN /\ IsPrefix(old, new)
                   /\ ReceivedMessages(emitted'[s]) =
                        SubSeq(new, Len(old) + 1, Len(new))
                   /\ HistoryMessages(emitted'[s]) = << >>
    ]_vars

\* C34: in every state every entry of the registry is that of a socket
\* that is connected, names a ticket that exists, and carries the company
\* of that ticket; a socket that is not connected has no entry.
C34_RegistryIsSound ==
  /\ \A s \in DOMAIN connections :
       /\ s \in sockets
       /\ hasTicket(connections[s].ticketId)
       /\ getTicket(connections[s].ticketId).companyId =
            connections[s].companyId
  /\ \A s \in SocketIds \ sockets : ~ hasConnection(s)

\* a socket that had an entry has disconnected, which a socket that keeps
\* its entry was told; tickets of both companies exist
C34_Witness ==
  /\ lastOp.op = "disconnect"
  /\ ~ hasConnection(lastOp.socket)
  /\ \E r \in DOMAIN connections : EventsOf(r, "user:left") # << >>
  /\ \E t1, t2 \in DOMAIN tickets : tickets[t1].companyId # tickets[t2].companyId

\* C35: a typing:start or typing:stop sends typing:update to a socket only
\* if the socket it came from has a registry entry naming the ticket of
\* the event; a socket with no entry, or with an entry for another ticket,
\* makes the server send nothing to the sockets in the room of the ticket.
C35_TypingOnlyFromMembers ==
  [][ ( /\ lastOp'.op \in {"typing:start", "typing:stop"}
        /\ \E r \in SocketIds : emitted'[r] # << >> )
      => /\ lastOp'.socket \in DOMAIN connections
         /\ connections[lastOp'.socket].ticketId = lastOp'.ticketId ]_vars

\* C36: the senderType of a message that is stored and broadcast is the
\* role of the registry entry of the socket that sent it: a socket that
\* joined as customer stores no message marked agent, and the reverse.
C36_SenderTypeIsRole ==
  SendAccepted =>
    /\ StoredMessage.senderType = getConnection(lastOp.socket).userType
    /\ \A r \in SocketIds :
         \A i \in 1..Len(ReceivedMessages(emitted[r])) :
           ReceivedMessages(emitted[r])[i].senderType =
             getConnection(lastOp.socket).userType

\* C37: when a socket disconnects, every other socket that is in the room
\* of a ticket the socket had joined is sent user:left for that ticket, the
\* ticket of its registry entry and the tickets it joined before alike; so
\* a socket that was sent user:joined when it came is sent user:left when
\* it goes.
C37_PresenceBalanced ==
  [][ lastOp'.op = "disconnect" =>
        \A t \in TicketIdInputs :
          \A r \in SocketIds \ {lastOp'.socket} :
            ( /\ TicketRoom(t) \in rooms[lastOp'.socket]
              /\ TicketRoom(t) \in rooms'[r] )
            => \E i \in 1..Len(emitted'[r]) :
                 /\ emitted'[r][i].type = "user:left"
                 /\ emitted'[r][i].to = TicketRoom(t) ]_vars

\* C38: whenever the agent dashboard is at rest with a ticket selected, the
\* socket of socketRef is connected, its registry entry names the ticket
\* selected, and it is in the room of that ticket; so the message:send the
\* dashboard emits next is accepted and the message:received of the ticket
\* reach it.
C38_SelectedIsJoined ==
  (client.pc = "idle" /\ client.selectedTicket # 0) =>
    /\ client.socketRef \in sockets
    /\ hasConnection(client.socketRef)
    /\ getConnection(client.socketRef).ticketId = client.selectedTicket
    /\ TicketRoom(client.selectedTicket) \in rooms[client.socketRef]

=============================================================================
